---- MODULE Spec2Model ----
(***************************************************************************)
(* Model of codespan-reporting/src/diagnostic.rs: the Severity and         *)
(* LabelStyle enums with their derived orderings, the Label constructors   *)
(* and builders, and the Diagnostic factories and builders.                *)
(*                                                                         *)
(* Three specifications share the variables:                               *)
(*   Spec      - one Diagnostic built by a factory and then by builders    *)
(*   SpecLabel - one Label built by a constructor and then by builders     *)
(*   SpecOrd   - comparisons of Severity and LabelStyle values             *)
(***************************************************************************)
EXTENDS Integers, Sequences, FiniteSets, TLC

(* ---------------------------------------------------------------------- *)
(* Bounds                                                                  *)
(* ---------------------------------------------------------------------- *)
MaxLabels == 2
MaxNotes == 2
MaxArgLen == 1
MaxLabelOps == 3

(* ---------------------------------------------------------------------- *)
(* Values                                                                  *)
(* ---------------------------------------------------------------------- *)
\* Option<T>: None is the empty sequence, Some(x) the one-element sequence.
None == << >>
Some(x) == << x >>

\* enum Severity, in declaration order.
Severity == {"Help", "Note", "Warning", "Error", "Bug"}

\* enum LabelStyle, in declaration order.
LabelStyle == {"Primary", "Secondary"}

\* The unit value () used as the placeholder file id of anonymous labels.
Unit == "()"

\* Concrete file ids (FileId is an opaque type parameter).
Files == {"FileA", "FileB"}
FileIds == Files \cup {Unit}

\* The FileId type a file id value belongs to: () or the caller's type.
TypeOf(f) == IF f = Unit THEN "unit" ELSE "file"

\* Range<usize> values, one of them inverted (ranges are unchecked).
Ranges == { [start |-> 5, end |-> 10], [start |-> 10, end |-> 14], [start |-> 7, end |-> 3] }

Messages == {"a", "b"}
Codes == {"", "E0001"}
Notes == {"n1", "n2"}

SeqsUpTo(S, n) == UNION { [1..k -> S] : k \in 0..n }

(* ---------------------------------------------------------------------- *)
(* Derived orderings                                                       *)
(* ---------------------------------------------------------------------- *)
\* Mutant: Warning and Error declared in the opposite order.
SeverityDiscriminant_swapped(s) ==
    CASE s = "Help" -> 0
      [] s = "Note" -> 1
      [] s = "Error" -> 2
      [] s = "Warning" -> 3
      [] s = "Bug" -> 4

\* Discriminant of a Severity variant: its position in the declaration.
SeverityDiscriminant(s) ==
    CASE s = "Help" -> 0
      [] s = "Note" -> 1
      [] s = "Warning" -> 2
      [] s = "Error" -> 3
      [] s = "Bug" -> 4

\* derive(Ord) on a fieldless enum compares discriminants.
Severity_cmp(a, b) ==
    IF SeverityDiscriminant(a) < SeverityDiscriminant(b) THEN "Less"
    ELSE IF SeverityDiscriminant(a) = SeverityDiscriminant(b) THEN "Equal"
    ELSE "Greater"

\* Discriminant of a LabelStyle variant: its position in the declaration.
LabelStyleDiscriminant(s) ==
    CASE s = "Primary" -> 0
      [] s = "Secondary" -> 1

\* derive(PartialOrd) on a fieldless enum: Some(ordering of discriminants).
LabelStyle_partial_cmp(a, b) ==
    IF LabelStyleDiscriminant(a) < LabelStyleDiscriminant(b) THEN Some("Less")
    ELSE IF LabelStyleDiscriminant(a) = LabelStyleDiscriminant(b) THEN Some("Equal")
    ELSE Some("Greater")

(* ---------------------------------------------------------------------- *)
(* Label                                                                   *)
(* ---------------------------------------------------------------------- *)
Label_new(style, file_id, range) ==
    [style |-> style, file_id |-> file_id, range |-> range, message |-> ""]

Label_primary(file_id, range) == Label_new("Primary", file_id, range)

Label_secondary(file_id, range) == Label_new("Secondary", file_id, range)

Label_with_message(self, message) == [self EXCEPT !.message = message]

Label_with_file(self, file_id) ==
    [style |-> self.style, file_id |-> file_id, range |-> self.range,
     message |-> self.message]

\* Mutant: the style argument is ignored.
Label_new_anon_primary_only(style, range) ==
    [style |-> "Primary", file_id |-> Unit, range |-> range, message |-> ""]

Label_new_anon(style, range) ==
    [style |-> style, file_id |-> Unit, range |-> range, message |-> ""]

Label_primary_anon(range) == Label_new_anon("Primary", range)

Label_secondary_anon(range) == Label_new_anon("Secondary", range)

(* ---------------------------------------------------------------------- *)
(* Diagnostic                                                              *)
(* ---------------------------------------------------------------------- *)
Diagnostic_new(severity) ==
    [severity |-> severity, code |-> None, message |-> "",
     labels |-> << >>, notes |-> << >>]

Diagnostic_bug == Diagnostic_new("Bug")

Diagnostic_error == Diagnostic_new("Error")

Diagnostic_warning == Diagnostic_new("Warning")

Diagnostic_note == Diagnostic_new("Note")

\* Mutant: the wrong variant is pasted into the factory.
Diagnostic_help_as_note == Diagnostic_new("Note")

Diagnostic_help == Diagnostic_new("Help")

\* Mutant: the code is kept once set.
Diagnostic_with_code_keep_first(self, code) ==
    IF self.code = None THEN [self EXCEPT !.code = Some(code)] ELSE self

\* Mutant: the diagnostic is rebuilt from its severity and the new code.
Diagnostic_with_code_rebuilt(self, code) ==
    [Diagnostic_new(self.severity) EXCEPT !.code = Some(code)]

Diagnostic_with_code(self, code) == [self EXCEPT !.code = Some(code)]

\* Mutant: the message is kept once set.
Diagnostic_with_message_keep_first(self, message) ==
    IF self.message = "" THEN [self EXCEPT !.message = message] ELSE self

Diagnostic_with_message(self, message) == [self EXCEPT !.message = message]

\* Mutant: the labels are assigned instead of appended.
Diagnostic_with_labels_replacing(self, labels) ==
    [self EXCEPT !.labels = labels]

\* Vec::append moves every element of the argument to the end of self.
Diagnostic_with_labels(self, labels) ==
    [self EXCEPT !.labels = self.labels \o labels]

\* Vec::extend pushes the items of the iterator one by one.
RECURSIVE VecExtend(_, _)
VecExtend(vec, iter) ==
    IF iter = << >> THEN vec
    ELSE VecExtend(Append(vec, Head(iter)), Tail(iter))

Diagnostic_with_labels_iter(self, labels) ==
    [self EXCEPT !.labels = VecExtend(self.labels, labels)]

Diagnostic_with_notes(self, notes) ==
    [self EXCEPT !.notes = self.notes \o notes]

\* Mutant: the new notes are put in front of the old ones.
Diagnostic_with_notes_iter_prepending(self, notes) ==
    [self EXCEPT !.notes = VecExtend(notes, self.notes)]

Diagnostic_with_notes_iter(self, notes) ==
    [self EXCEPT !.notes = VecExtend(self.notes, notes)]

\* Mutant: only the first label is rebound.
Diagnostic_with_file_first_only(self, file_id) ==
    [severity |-> self.severity,
     code |-> self.code,
     message |-> self.message,
     labels |-> [i \in 1..Len(self.labels) |->
                    IF i = 1 THEN Label_with_file(self.labels[i], file_id)
                    ELSE self.labels[i]],
     notes |-> self.notes]

\* drain(..).map(|label| label.with_file(file_id.clone())).collect()
Diagnostic_with_file(self, file_id) ==
    [severity |-> self.severity,
     code |-> self.code,
     message |-> self.message,
     labels |-> [i \in 1..Len(self.labels) |-> Label_with_file(self.labels[i], file_id)],
     notes |-> self.notes]

(* ---------------------------------------------------------------------- *)
(* State                                                                   *)
(* ---------------------------------------------------------------------- *)
VARIABLES
    diag,        \* the Diagnostic being built
    op,          \* name of the last Diagnostic call
    fileTy,      \* the FileId type of diag: "unit" or "file"
    factorySev,  \* severity the factory was asked for
    codeArg,     \* argument of the most recent with_code, None before it
    messageArg,  \* argument of the most recent with_message, None before it
    labelArgs,   \* concatenation of the label arguments, in call order, since the
                 \* factory or the last with_file
    noteArgs,    \* concatenation of the note arguments, in call order
    fileArg,     \* argument of the most recent with_file, None before it
    lab,         \* the Label being built
    labOps,      \* the calls made on lab, in order
    sevCmp,      \* last Severity comparisons made
    styleCmp     \* last LabelStyle comparison made

diagVars == << diag, op, fileTy, factorySev, codeArg, messageArg, labelArgs, noteArgs, fileArg >>
labVars == << lab, labOps >>
ordVars == << sevCmp, styleCmp >>
vars == << diag, op, fileTy, factorySev, codeArg, messageArg, labelArgs, noteArgs, fileArg,
           lab, labOps, sevCmp, styleCmp >>

\* No value bound yet.
Unbound == "unbound"

Init ==
    /\ diag = [severity |-> Unbound, code |-> None, message |-> "",
               labels |-> << >>, notes |-> << >>]
    /\ op = "none"
    /\ fileTy = "unit"
    /\ factorySev = Unbound
    /\ codeArg = None
    /\ messageArg = None
    /\ labelArgs = << >>
    /\ noteArgs = << >>
    /\ fileArg = None
    /\ lab = [style |-> Unbound, file_id |-> Unit,
              range |-> [start |-> 0, end |-> 0], message |-> ""]
    /\ labOps = << >>
    /\ sevCmp = [a |-> Unbound, b |-> Unbound, c |-> Unbound,
                 ab |-> Unbound, bc |-> Unbound, ac |-> Unbound, ba |-> Unbound]
    /\ styleCmp = [a |-> Unbound, b |-> Unbound, ab |-> None]

created == op # "none"

(* ---------------------------------------------------------------------- *)
(* Labels a caller hands to a Diagnostic of each FileId type               *)
(* ---------------------------------------------------------------------- *)
LabelPool(ty) ==
    IF ty = "unit"
    THEN { Label_primary_anon([start |-> 5, end |-> 10]),
           Label_with_message(Label_secondary_anon([start |-> 7, end |-> 3]), "a") }
    ELSE { Label_primary("FileA", [start |-> 5, end |-> 10]),
           Label_with_message(Label_secondary("FileB", [start |-> 7, end |-> 3]), "a") }

(* ---------------------------------------------------------------------- *)
(* Diagnostic actions                                                      *)
(* ---------------------------------------------------------------------- *)
Factory(name, d, sev) ==
    /\ ~created
    /\ diag' = d
    /\ op' = name
    /\ factorySev' = sev
    /\ \E ty \in {"unit", "file"} : fileTy' = ty
    /\ UNCHANGED << codeArg, messageArg, labelArgs, noteArgs, fileArg >>
    /\ UNCHANGED << labVars, ordVars >>

New == \E s \in Severity : Factory("new", Diagnostic_new(s), s)
Bug == Factory("bug", Diagnostic_bug, "Bug")
Error == Factory("error", Diagnostic_error, "Error")
Warning == Factory("warning", Diagnostic_warning, "Warning")
Note == Factory("note", Diagnostic_note, "Note")
Help == Factory("help", Diagnostic_help, "Help")

WithCode ==
    \E c \in Codes :
        /\ created
        /\ diag' = Diagnostic_with_code(diag, c)
        /\ op' = "with_code"
        /\ codeArg' = Some(c)
        /\ UNCHANGED << fileTy, factorySev, messageArg, labelArgs, noteArgs, fileArg >>
        /\ UNCHANGED << labVars, ordVars >>

WithMessage ==
    \E m \in Messages :
        /\ created
        /\ diag' = Diagnostic_with_message(diag, m)
        /\ op' = "with_message"
        /\ messageArg' = Some(m)
        /\ UNCHANGED << fileTy, factorySev, codeArg, labelArgs, noteArgs, fileArg >>
        /\ UNCHANGED << labVars, ordVars >>

WithLabels ==
    \E ls \in SeqsUpTo(LabelPool(fileTy), MaxArgLen) :
        /\ created
        /\ Len(diag.labels) + Len(ls) <= MaxLabels
        /\ diag' = Diagnostic_with_labels(diag, ls)
        /\ op' = "with_labels"
        /\ labelArgs' = labelArgs \o ls
        /\ UNCHANGED << fileTy, factorySev, codeArg, messageArg, noteArgs, fileArg >>
        /\ UNCHANGED << labVars, ordVars >>

WithLabelsIter ==
    \E ls \in SeqsUpTo(LabelPool(fileTy), MaxArgLen) :
        /\ created
        /\ Len(diag.labels) + Len(ls) <= MaxLabels
        /\ diag' = Diagnostic_with_labels_iter(diag, ls)
        /\ op' = "with_labels_iter"
        /\ labelArgs' = labelArgs \o ls
        /\ UNCHANGED << fileTy, factorySev, codeArg, messageArg, noteArgs, fileArg >>
        /\ UNCHANGED << labVars, ordVars >>

WithNotes ==
    \E ns \in SeqsUpTo(Notes, MaxArgLen) :
        /\ created
        /\ Len(diag.notes) + Len(ns) <= MaxNotes
        /\ diag' = Diagnostic_with_notes(diag, ns)
        /\ op' = "with_notes"
        /\ noteArgs' = noteArgs \o ns
        /\ UNCHANGED << fileTy, factorySev, codeArg, messageArg, labelArgs, fileArg >>
        /\ UNCHANGED << labVars, ordVars >>

WithNotesIter ==
    \E ns \in SeqsUpTo(Notes, MaxArgLen) :
        /\ created
        /\ Len(diag.notes) + Len(ns) <= MaxNotes
        /\ diag' = Diagnostic_with_notes_iter(diag, ns)
        /\ op' = "with_notes_iter"
        /\ noteArgs' = noteArgs \o ns
        /\ UNCHANGED << fileTy, factorySev, codeArg, messageArg, labelArgs, fileArg >>
        /\ UNCHANGED << labVars, ordVars >>

WithFile ==
    \E f \in FileIds :
        /\ created
        /\ diag' = Diagnostic_with_file(diag, f)
        /\ op' = "with_file"
        /\ fileTy' = TypeOf(f)
        /\ fileArg' = Some(f)
        /\ labelArgs' = << >>
        /\ UNCHANGED << factorySev, codeArg, messageArg, noteArgs >>
        /\ UNCHANGED << labVars, ordVars >>

Next ==
    \/ New \/ Bug \/ Error \/ Warning \/ Note \/ Help
    \/ WithCode \/ WithMessage
    \/ WithLabels \/ WithLabelsIter
    \/ WithNotes \/ WithNotesIter
    \/ WithFile

Spec == Init /\ [][Next]_vars

(* ---------------------------------------------------------------------- *)
(* Label actions                                                           *)
(* ---------------------------------------------------------------------- *)
\* One call on lab: its name and its arguments (unused ones left Unbound).
Call(name, style, file_id, range, message) ==
    [name |-> name, style |-> style, file_id |-> file_id, range |-> range,
     message |-> message]

NoRange == [start |-> 0, end |-> 0]

Construct(l, call) ==
    /\ labOps = << >>
    /\ lab' = l
    /\ labOps' = << call >>
    /\ UNCHANGED diagVars
    /\ UNCHANGED ordVars

LabelNew ==
    \E s \in LabelStyle, f \in FileIds, r \in Ranges :
        Construct(Label_new(s, f, r), Call("new", s, f, r, Unbound))

LabelPrimary ==
    \E f \in FileIds, r \in Ranges :
        Construct(Label_primary(f, r), Call("primary", Unbound, f, r, Unbound))

LabelSecondary ==
    \E f \in FileIds, r \in Ranges :
        Construct(Label_secondary(f, r), Call("secondary", Unbound, f, r, Unbound))

LabelNewAnon ==
    \E s \in LabelStyle, r \in Ranges :
        Construct(Label_new_anon(s, r), Call("new_anon", s, Unbound, r, Unbound))

LabelPrimaryAnon ==
    \E r \in Ranges :
        Construct(Label_primary_anon(r), Call("primary_anon", Unbound, Unbound, r, Unbound))

LabelSecondaryAnon ==
    \E r \in Ranges :
        Construct(Label_secondary_anon(r), Call("secondary_anon", Unbound, Unbound, r, Unbound))

LabelWithMessage ==
    \E m \in Messages :
        /\ labOps # << >>
        /\ Len(labOps) < MaxLabelOps
        /\ lab' = Label_with_message(lab, m)
        /\ labOps' = Append(labOps, Call("with_message", Unbound, Unbound, NoRange, m))
        /\ UNCHANGED diagVars
        /\ UNCHANGED ordVars

LabelWithFile ==
    \E f \in FileIds :
        /\ labOps # << >>
        /\ Len(labOps) < MaxLabelOps
        /\ lab' = Label_with_file(lab, f)
        /\ labOps' = Append(labOps, Call("with_file", Unbound, f, NoRange, Unbound))
        /\ UNCHANGED diagVars
        /\ UNCHANGED ordVars

NextLabel ==
    \/ LabelNew \/ LabelPrimary \/ LabelSecondary
    \/ LabelNewAnon \/ LabelPrimaryAnon \/ LabelSecondaryAnon
    \/ LabelWithMessage \/ LabelWithFile

SpecLabel == Init /\ [][NextLabel]_vars

(* ---------------------------------------------------------------------- *)
(* Comparison actions                                                      *)
(* ---------------------------------------------------------------------- *)
CompareSeverity ==
    \E a \in Severity, b \in Severity, c \in Severity :
        /\ sevCmp' = [a |-> a, b |-> b, c |-> c,
                      ab |-> Severity_cmp(a, b), bc |-> Severity_cmp(b, c),
                      ac |-> Severity_cmp(a, c), ba |-> Severity_cmp(b, a)]
        /\ UNCHANGED diagVars
        /\ UNCHANGED << labVars, styleCmp >>

CompareLabelStyle ==
    \E a \in LabelStyle, b \in LabelStyle :
        /\ styleCmp' = [a |-> a, b |-> b, ab |-> LabelStyle_partial_cmp(a, b)]
        /\ UNCHANGED diagVars
        /\ UNCHANGED << labVars, sevCmp >>

NextOrd == CompareSeverity \/ CompareLabelStyle

SpecOrd == Init /\ [][NextOrd]_vars

\* One builder chain: its receiver is a Diagnostic or a Label, never both.
NextChain ==
    \/ (labOps = << >> /\ Next)
    \/ (~created /\ NextLabel)

SpecChain == Init /\ [][NextChain]_vars

(* ---------------------------------------------------------------------- *)
(* Properties                                                              *)
(* ---------------------------------------------------------------------- *)

\* C1: while no with_file has been called, labels is the concatenation, in
\* call order, of the sequences passed to with_labels and with_labels_iter,
\* and with_labels_iter(s) gives the same Diagnostic as with_labels(s).
C1_LabelsAppend ==
    (created /\ fileArg = None) =>
        /\ diag.labels = labelArgs
        /\ \A ls \in SeqsUpTo(LabelPool(fileTy), 2) :
              Diagnostic_with_labels_iter(diag, ls) = Diagnostic_with_labels(diag, ls)

C1_Witness ==
    /\ op = "with_labels_iter"
    /\ fileArg = None
    /\ codeArg # None
    /\ Len(diag.labels) = 2
    /\ diag.labels[1] # diag.labels[2]

\* C2: a with_file(F) step keeps the number and order of the labels, sets
\* every label's file_id to F, keeps each label's style, range and message,
\* and keeps severity, code, message and notes.
C2_WithFileRebinds ==
    [][ op' = "with_file" =>
          /\ Len(diag'.labels) = Len(diag.labels)
          /\ \A i \in 1..Len(diag.labels) :
                /\ diag'.labels[i].file_id = fileArg'[1]
                /\ diag'.labels[i].style = diag.labels[i].style
                /\ diag'.labels[i].range = diag.labels[i].range
                /\ diag'.labels[i].message = diag.labels[i].message
          /\ diag'.severity = diag.severity
          /\ diag'.code = diag.code
          /\ diag'.message = diag.message
          /\ diag'.notes = diag.notes ]_vars

C2_Witness ==
    /\ op = "with_file"
    /\ fileArg = Some("FileB")
    /\ Len(diag.labels) = 2
    /\ diag.labels[1].style # diag.labels[2].style
    /\ diag.labels[2].message # diag.labels[1].message
    /\ diag.code # None
    /\ diag.message # ""
    /\ diag.notes # << >>

\* C3: comparing Primary with Secondary by the ordering LabelStyle provides
\* gives Primary > Secondary.
C3_PrimaryOutranksSecondary ==
    (styleCmp.a = "Primary" /\ styleCmp.b = "Secondary") =>
        styleCmp.ab = Some("Greater")

\* C4: the comparison of two Severity values matches the ranking
\* Help < Note < Warning < Error < Bug; exactly one of <, ==, > holds, the
\* order is transitive, and equality holds only between identical variants.
C4_SeverityTotalOrder ==
    sevCmp.a # Unbound =>
        LET Ranking == << "Help", "Note", "Warning", "Error", "Bug" >>
            Rank(s) == CHOOSE i \in 1..Len(Ranking) : Ranking[i] = s
        IN  /\ sevCmp.ab \in {"Less", "Equal", "Greater"}
            /\ (sevCmp.ab = "Less") <=> (Rank(sevCmp.a) < Rank(sevCmp.b))
            /\ (sevCmp.ab = "Greater") <=> (Rank(sevCmp.a) > Rank(sevCmp.b))
            /\ (sevCmp.ab = "Equal") <=> (sevCmp.a = sevCmp.b)
            /\ (sevCmp.ab = "Less") <=> (sevCmp.ba = "Greater")
            /\ (sevCmp.ab = "Less" /\ sevCmp.bc = "Less") => sevCmp.ac = "Less"

C4_Witness ==
    /\ sevCmp.a = "Warning"
    /\ sevCmp.b = "Error"
    /\ sevCmp.c = "Bug"
    /\ sevCmp.ab = "Less"
    /\ sevCmp.ac = "Less"

\* C5: the message of a Diagnostic and of a Label is the argument of the
\* most recent with_message call, and the empty string before the first one.
C5_MessageReplaced ==
    /\ created =>
          diag.message = (IF messageArg = None THEN "" ELSE messageArg[1])
    /\ labOps # << >> =>
          LET calls == { i \in 1..Len(labOps) : labOps[i].name = "with_message" }
              last == CHOOSE i \in calls : \A j \in calls : j <= i
          IN  lab.message = (IF calls = {} THEN "" ELSE labOps[last].message)

C5_Witness ==
    /\ op = "with_message"
    /\ messageArg = Some("b")
    /\ diag.message = "b"
    /\ codeArg # None
    /\ diag.labels # << >>

\* C6: notes is the concatenation, in call order, of the sequences passed to
\* with_notes and with_notes_iter.
C6_NotesAppend ==
    created => diag.notes = noteArgs

C6_Witness ==
    /\ op = "with_notes_iter"
    /\ Len(diag.notes) = 2
    /\ diag.notes[1] # diag.notes[2]
    /\ fileArg # None

\* C7: an anonymous constructor followed by with_file(F) gives the label the
\* matching constructor gives for F, also when with_message(m) is applied
\* before or after the rebinding.
C7_AnonRebindEqualsDirect ==
    LET anon == {"new_anon", "primary_anon", "secondary_anon"}
        Direct(call, f) ==
            CASE call.name = "new_anon" -> Label_new(call.style, f, call.range)
              [] call.name = "primary_anon" -> Label_primary(f, call.range)
              [] call.name = "secondary_anon" -> Label_secondary(f, call.range)
        Names == [i \in 1..Len(labOps) |-> labOps[i].name]
    IN  (Len(labOps) >= 2 /\ labOps[1].name \in anon) =>
            /\ Tail(Names) = << "with_file" >> =>
                  lab = Direct(labOps[1], labOps[2].file_id)
            /\ Tail(Names) = << "with_file", "with_message" >> =>
                  lab = Label_with_message(Direct(labOps[1], labOps[2].file_id),
                                           labOps[3].message)
            /\ Tail(Names) = << "with_message", "with_file" >> =>
                  lab = Label_with_message(Direct(labOps[1], labOps[3].file_id),
                                           labOps[2].message)

C7_Witness ==
    /\ Len(labOps) = 3
    /\ labOps[1].name = "secondary_anon"
    /\ labOps[2].name = "with_file"
    /\ labOps[3].name = "with_message"
    /\ lab.file_id = "FileB"
    /\ lab.range = [start |-> 7, end |-> 3]

\* C8: code is None until the first with_code, is Some of the argument of
\* the most recent with_code after it, and never returns to None.
C8_CodeReplaced ==
    [][ /\ created' => diag'.code = codeArg'
        /\ diag.code # None => diag'.code # None ]_vars

C8_Witness ==
    /\ op = "with_code"
    /\ diag.code = Some("")
    /\ messageArg # None
    /\ diag.labels # << >>

\* C9: each factory yields the empty diagnostic of its severity.
C9_FactoriesEmpty ==
    LET Empty(s) == [severity |-> s, code |-> << >>, message |-> "",
                     labels |-> << >>, notes |-> << >>]
    IN  /\ op = "new" => diag = Empty(factorySev)
        /\ op = "bug" => diag = Empty("Bug")
        /\ op = "error" => diag = Empty("Error")
        /\ op = "warning" => diag = Empty("Warning")
        /\ op = "note" => diag = Empty("Note")
        /\ op = "help" => diag = Empty("Help")

C9_Witness ==
    /\ op = "help"
    /\ diag.severity = "Help"
    /\ diag.notes = << >>

\* C10: each builder step changes only its own field, severity is the
\* factory's in every state, and builders of different fields commute.
C10_BuildersFrame ==
    /\ [][ /\ op' = "with_code" =>
                 /\ diag'.severity = diag.severity /\ diag'.message = diag.message
                 /\ diag'.labels = diag.labels /\ diag'.notes = diag.notes
           /\ op' = "with_message" =>
                 /\ diag'.severity = diag.severity /\ diag'.code = diag.code
                 /\ diag'.labels = diag.labels /\ diag'.notes = diag.notes
           /\ op' \in {"with_labels", "with_labels_iter"} =>
                 /\ diag'.severity = diag.severity /\ diag'.code = diag.code
                 /\ diag'.message = diag.message /\ diag'.notes = diag.notes
           /\ op' \in {"with_notes", "with_notes_iter"} =>
                 /\ diag'.severity = diag.severity /\ diag'.code = diag.code
                 /\ diag'.message = diag.message /\ diag'.labels = diag.labels
         ]_vars
    /\ [](created =>
           /\ diag.severity = factorySev
           /\ \A c \in Codes, m \in Messages :
                 Diagnostic_with_code(Diagnostic_with_message(diag, m), c)
                   = Diagnostic_with_message(Diagnostic_with_code(diag, c), m)
           /\ \A c \in Codes, ls \in SeqsUpTo(LabelPool(fileTy), 1) :
                 /\ Diagnostic_with_code(Diagnostic_with_labels(diag, ls), c)
                      = Diagnostic_with_labels(Diagnostic_with_code(diag, c), ls)
                 /\ Diagnostic_with_code(Diagnostic_with_labels_iter(diag, ls), c)
                      = Diagnostic_with_labels_iter(Diagnostic_with_code(diag, c), ls)
           /\ \A c \in Codes, ns \in SeqsUpTo(Notes, 1) :
                 /\ Diagnostic_with_code(Diagnostic_with_notes(diag, ns), c)
                      = Diagnostic_with_notes(Diagnostic_with_code(diag, c), ns)
                 /\ Diagnostic_with_code(Diagnostic_with_notes_iter(diag, ns), c)
                      = Diagnostic_with_notes_iter(Diagnostic_with_code(diag, c), ns)
           /\ \A m \in Messages, ls \in SeqsUpTo(LabelPool(fileTy), 1) :
                 /\ Diagnostic_with_message(Diagnostic_with_labels(diag, ls), m)
                      = Diagnostic_with_labels(Diagnostic_with_message(diag, m), ls)
                 /\ Diagnostic_with_message(Diagnostic_with_labels_iter(diag, ls), m)
                      = Diagnostic_with_labels_iter(Diagnostic_with_message(diag, m), ls)
           /\ \A m \in Messages, ns \in SeqsUpTo(Notes, 1) :
                 /\ Diagnostic_with_message(Diagnostic_with_notes(diag, ns), m)
                      = Diagnostic_with_notes(Diagnostic_with_message(diag, m), ns)
                 /\ Diagnostic_with_message(Diagnostic_with_notes_iter(diag, ns), m)
                      = Diagnostic_with_notes_iter(Diagnostic_with_message(diag, m), ns)
           /\ \A ls \in SeqsUpTo(LabelPool(fileTy), 1), ns \in SeqsUpTo(Notes, 1) :
                 /\ Diagnostic_with_labels(Diagnostic_with_notes(diag, ns), ls)
                      = Diagnostic_with_notes(Diagnostic_with_labels(diag, ls), ns)
                 /\ Diagnostic_with_labels_iter(Diagnostic_with_notes_iter(diag, ns), ls)
                      = Diagnostic_with_notes_iter(Diagnostic_with_labels_iter(diag, ls), ns))

C10_Witness ==
    /\ op = "with_code"
    /\ diag.severity = "Warning"
    /\ diag.message # ""
    /\ diag.labels # << >>
    /\ diag.notes # << >>

====
